---- MODULE Spec2Model ----
(***************************************************************************)
(* Market-position ledger of the polymarket subgraph                      *)
(* (src/utils/market-positions-utils.ts).                                  *)
(*                                                                         *)
(* The store of MarketPosition entities is a function from position id to  *)
(* entity.  One action per exported handler; every handler is a pure       *)
(* operator from the store (and the entities it loads) to the store after  *)
(* the handler, the diagnostics it logged and whether it trapped.          *)
(*                                                                         *)
(* A nullable value is a sequence of length at most one.  Reading a field  *)
(* through a null entity is undefined: the handler traps or goes on with   *)
(* whatever the read yields.  A trap ends the stream (halted).             *)
(* The integers of TLC are 32-bit, so the i32 of the code is modelled at   *)
(* the width I32Bits and the amounts are scaled to it.                     *)
(***************************************************************************)
EXTENDS Integers, Sequences, FiniteSets, TLC

VARIABLES positions, pre, ev, diags, halted, nEvents, prior, replay

vars == <<positions, pre, ev, diags, halted, nEvents, prior, replay>>

\* ------------------------------------------------------------------ bounds
MaxEvents == 3
I32Bits == 8

\* ------------------------------------------------------------------ values
None == <<>>
Some(x) == <<x>>

bigZero == 0

Users == {"0xa1", "0xb2"}

\* the stored FixedProductMarketMaker entities: address -> outcomeSlotCount
FixedProductMarketMakers == ("0xf1" :> 2) @@ ("0xf2" :> 3)

Markets == DOMAIN FixedProductMarketMakers

\* an address with no FixedProductMarketMaker entity
UnknownMarket == "0xf9"

\* ---------------------------------------------------------------- BigInt
Abs(a) == IF a < 0 THEN 0 - a ELSE a

\* BigInt.div: the quotient truncated toward zero (b # 0)
div(a, b) ==
  LET q == Abs(a) \div Abs(b)
  IN IF (a < 0) # (b < 0) THEN 0 - q ELSE q

Digit(d) == CASE d = 0 -> "0" [] d = 1 -> "1" [] d = 2 -> "2" [] d = 3 -> "3"
              [] d = 4 -> "4" [] d = 5 -> "5" [] d = 6 -> "6" [] d = 7 -> "7"
              [] d = 8 -> "8" [] d = 9 -> "9"

RECURSIVE NatToString(_)
NatToString(n) == IF n < 10 THEN Digit(n) ELSE NatToString(n \div 10) \o Digit(n % 10)

\* BigInt.toString
toString(n) == IF n < 0 THEN "-" \o NatToString(0 - n) ELSE NatToString(n)

\* ------------------------------------------------------------------ store
load(store, id) == IF id \in DOMAIN store THEN Some(store[id]) ELSE None

save(store, position) ==
  [id \in (DOMAIN store) \cup {position.id} |->
     IF id = position.id THEN position ELSE store[id]]

\* the accessor that never finds a stored position
getMarketPosition_alwaysNew(store, user, market, outcomeIndex) ==
  [id |-> user \o market \o toString(outcomeIndex), market |-> market,
   user |-> user, outcomeIndex |-> outcomeIndex,
   quantityBought |-> bigZero, quantitySold |-> bigZero, netQuantity |-> bigZero,
   valueBought |-> bigZero, valueSold |-> bigZero, netValue |-> bigZero]

getMarketPosition(store, user, market, outcomeIndex) ==
  LET positionId == user \o market \o toString(outcomeIndex)
      position == load(store, positionId)
  IN IF position = None
     THEN [id |-> positionId, market |-> market, user |-> user,
           outcomeIndex |-> outcomeIndex,
           quantityBought |-> bigZero, quantitySold |-> bigZero,
           netQuantity |-> bigZero,
           valueBought |-> bigZero, valueSold |-> bigZero,
           netValue |-> bigZero]
     ELSE position[1]

\* the state a handler threads through its statements
Run(store) == [store |-> store, log |-> <<>>, trapped |-> FALSE]

Trap(st) == [st EXCEPT !.trapped = TRUE]

Log(st, diagnostic) == [st EXCEPT !.log = Append(st.log, diagnostic)]

NegativeNetQuantity(position) ==
  <<"Invalid position: negative netQuantity",
    position.user, toString(position.outcomeIndex), position.market>>

\* the reconciler saving the net fields as loaded
updateNetPositionAndSave_noReconcile(st, position) ==
  LET logged == IF position.netQuantity < bigZero
                THEN Log(st, NegativeNetQuantity(position)) ELSE st
  IN [logged EXCEPT !.store = save(st.store, position)]

\* the reconciler dropping a position whose netQuantity is negative
updateNetPositionAndSave_dropNegative(st, position) ==
  LET p == [position EXCEPT
              !.netQuantity = position.quantityBought - position.quantitySold,
              !.netValue = position.valueBought - position.valueSold]
  IN IF p.netQuantity < bigZero THEN Log(st, NegativeNetQuantity(p))
     ELSE [st EXCEPT !.store = save(st.store, p)]

updateNetPositionAndSave(st, position) ==
  LET p == [position EXCEPT
              !.netQuantity = position.quantityBought - position.quantitySold,
              !.netValue = position.valueBought - position.valueSold]
      logged == IF p.netQuantity < bigZero
                THEN Log(st, NegativeNetQuantity(p)) ELSE st
  IN [logged EXCEPT !.store = save(st.store, p)]

\* ------------------------------------------------------------------ trade
\* the stored Transaction entities, by transaction hash
Tx(user, market, outcomeIndex, type, outcomeTokensAmount, tradeAmount) ==
  [user |-> user, market |-> market, outcomeIndex |-> outcomeIndex,
   type |-> type, outcomeTokensAmount |-> outcomeTokensAmount,
   tradeAmount |-> tradeAmount]

Transactions ==
  ("0x01" :> Tx("0xa1", "0xf1", 0, "Buy", 3, 2)) @@
  ("0x02" :> Tx("0xa1", "0xf1", 0, "Sell", 3, 2)) @@
  ("0x03" :> Tx("0xa1", "0xf1", 1, "Sell", 5, 4)) @@
  ("0x04" :> Tx("0xb2", "0xf1", 0, "Buy", 7, 3)) @@
  ("0x05" :> Tx("0xb2", "0xf2", 2, "Buy", 5, 4)) @@
  ("0x06" :> Tx("0xa1", "0xf2", 1, "Sell", 3, 2))

\* a hash with no Transaction entity
UnknownHash == "0x09"

Hashes == (DOMAIN Transactions) \cup {UnknownHash}

\* Transaction.load
loadTransaction(hash) ==
  IF hash \in DOMAIN Transactions THEN Some(Transactions[hash]) ELSE None

\* what the fields of a null Transaction can read as
GarbageTransactions == {Tx("", "", 0, "", 0, 0)}

TransactionNotFound == <<"Could not find a transaction with hash">>

\* the trade reducer booking the value of a Sell as bought
updateMarketPositionFromTrade_sellValueBought(store, loaded, trapOnNull, garbage) ==
  LET st0 == IF loaded = None THEN Log(Run(store), TransactionNotFound)
             ELSE Run(store)
      transaction == IF loaded = None THEN garbage ELSE loaded[1]
      position == getMarketPosition(store, transaction.user, transaction.market,
                                    transaction.outcomeIndex)
      updated ==
        IF transaction.type = "Buy"
        THEN [position EXCEPT
                !.quantityBought = position.quantityBought + transaction.outcomeTokensAmount,
                !.valueBought = position.valueBought + transaction.tradeAmount]
        ELSE [position EXCEPT
                !.quantitySold = position.quantitySold + transaction.outcomeTokensAmount,
                !.valueBought = position.valueBought + transaction.tradeAmount]
  IN IF loaded = None /\ trapOnNull THEN Trap(st0)
     ELSE updateNetPositionAndSave(st0, updated)

\* loaded: the result of Transaction.load; garbage: what reading through a
\* null Transaction yields when it does not trap (trapOnNull)
updateMarketPositionFromTrade(store, loaded, trapOnNull, garbage) ==
  LET st0 == IF loaded = None THEN Log(Run(store), TransactionNotFound)
             ELSE Run(store)
      transaction == IF loaded = None THEN garbage ELSE loaded[1]
      position == getMarketPosition(store, transaction.user, transaction.market,
                                    transaction.outcomeIndex)
      updated ==
        IF transaction.type = "Buy"
        THEN [position EXCEPT
                !.quantityBought = position.quantityBought + transaction.outcomeTokensAmount,
                !.valueBought = position.valueBought + transaction.tradeAmount]
        ELSE [position EXCEPT
                !.quantitySold = position.quantitySold + transaction.outcomeTokensAmount,
                !.valueSold = position.valueSold + transaction.tradeAmount]
  IN IF loaded = None /\ trapOnNull THEN Trap(st0)
     ELSE updateNetPositionAndSave(st0, updated)

\* ------------------------------------------------------------ split, merge
SplitAmounts == {3}

\* what outcomeSlotCount of a null FixedProductMarketMaker can read as
GarbageSlotCounts == {2}

\* the split loop booking the whole amount as the value of each outcome
RECURSIVE SplitLoop_fullValue(_, _, _, _, _, _)
SplitLoop_fullValue(st, userAddress, marketMakerAddress, amount, totalSlots, outcomeIndex) ==
  IF outcomeIndex < totalSlots
  THEN LET position == getMarketPosition(st.store, userAddress, marketMakerAddress,
                                         outcomeIndex)
           updated == [position EXCEPT
                         !.quantityBought = position.quantityBought + amount,
                         !.valueBought = position.valueBought + amount]
       IN SplitLoop_fullValue(updateNetPositionAndSave(st, updated), userAddress,
                              marketMakerAddress, amount, totalSlots,
                              outcomeIndex + 1)
  ELSE st

RECURSIVE SplitLoop(_, _, _, _, _, _)
SplitLoop(st, userAddress, marketMakerAddress, amount, totalSlots, outcomeIndex) ==
  IF outcomeIndex < totalSlots
  THEN LET position == getMarketPosition(st.store, userAddress, marketMakerAddress,
                                         outcomeIndex)
           mergeValue == div(amount, totalSlots)
           updated == [position EXCEPT
                         !.quantityBought = position.quantityBought + amount,
                         !.valueBought = position.valueBought + mergeValue]
       IN SplitLoop(updateNetPositionAndSave(st, updated), userAddress,
                    marketMakerAddress, amount, totalSlots, outcomeIndex + 1)
  ELSE st

\* marketMaker: the result of FixedProductMarketMaker.load, the market's
\* outcomeSlotCount when found
updateMarketPositionsFromSplit(store, marketMakerAddress, userAddress, amount, marketMaker, trapOnNull, garbage) ==
  LET totalSlots == IF marketMaker = None THEN garbage ELSE marketMaker[1]
  IN IF marketMaker = None /\ trapOnNull THEN Trap(Run(store))
     ELSE SplitLoop(Run(store), userAddress, marketMakerAddress, amount,
                    totalSlots, 0)

\* the merge loop booking the whole amount as the value of each outcome
RECURSIVE MergeLoop_fullValue(_, _, _, _, _, _)
MergeLoop_fullValue(st, userAddress, marketMakerAddress, amount, totalSlots, outcomeIndex) ==
  IF outcomeIndex < totalSlots
  THEN LET position == getMarketPosition(st.store, userAddress, marketMakerAddress,
                                         outcomeIndex)
           updated == [position EXCEPT
                         !.quantitySold = position.quantitySold + amount,
                         !.valueSold = position.valueSold + amount]
       IN MergeLoop_fullValue(updateNetPositionAndSave(st, updated), userAddress,
                              marketMakerAddress, amount, totalSlots,
                              outcomeIndex + 1)
  ELSE st

RECURSIVE MergeLoop(_, _, _, _, _, _)
MergeLoop(st, userAddress, marketMakerAddress, amount, totalSlots, outcomeIndex) ==
  IF outcomeIndex < totalSlots
  THEN LET position == getMarketPosition(st.store, userAddress, marketMakerAddress,
                                         outcomeIndex)
           mergeValue == div(amount, totalSlots)
           updated == [position EXCEPT
                         !.quantitySold = position.quantitySold + amount,
                         !.valueSold = position.valueSold + mergeValue]
       IN MergeLoop(updateNetPositionAndSave(st, updated), userAddress,
                    marketMakerAddress, amount, totalSlots, outcomeIndex + 1)
  ELSE st

updateMarketPositionsFromMerge(store, marketMakerAddress, userAddress, amount, marketMaker, trapOnNull, garbage) ==
  LET totalSlots == IF marketMaker = None THEN garbage ELSE marketMaker[1]
  IN IF marketMaker = None /\ trapOnNull THEN Trap(Run(store))
     ELSE MergeLoop(Run(store), userAddress, marketMakerAddress, amount,
                    totalSlots, 0)

\* FixedProductMarketMaker.load
loadMarketMaker(marketMakerAddress) ==
  IF marketMakerAddress \in DOMAIN FixedProductMarketMakers
  THEN Some(FixedProductMarketMakers[marketMakerAddress]) ELSE None

\* ------------------------------------------------------------- redemption
Cond(id, payoutNumerators, payoutDenominator) ==
  [id |-> id, payoutNumerators |-> payoutNumerators,
   payoutDenominator |-> payoutDenominator]

\* the stored Condition entities, by condition id; the payout fields are set
\* when the condition resolves
Conditions ==
  ("0xc1" :> Cond("0xc1", Some(<<1, 1>>), Some(2))) @@
  ("0xc2" :> Cond("0xc2", Some(<<0, 1, 1>>), Some(2))) @@
  ("0xc3" :> Cond("0xc3", None, None)) @@
  ("0xc4" :> Cond("0xc4", Some(<<1, 1>>), None)) @@
  ("0xc5" :> Cond("0xc5", None, Some(2)))

\* an id with no Condition entity
UnknownCondition == "0xc9"

\* Condition.load
loadCondition(conditionId) ==
  IF conditionId \in DOMAIN Conditions THEN Some(Conditions[conditionId]) ELSE None

\* what the fields of a null Condition can read as
GarbageConditions == {Cond("", None, None), Cond("", Some(<<1, 1>>), Some(1))}

\* the PayoutRedemption events of the stream
PayoutRedemptions ==
  [from : Users, market : {"0xf1"}, conditionId : {"0xc1"},
   indexSets : {<<0, 1>>, <<1, 2>>}]
  \cup [from : Users, market : {"0xf2"}, conditionId : {"0xc2"},
        indexSets : {<<0, 1>>, <<1, 2>>}]
  \cup [from : Users, market : {"0xf1"},
        conditionId : {"0xc3", "0xc4", "0xc5", UnknownCondition},
        indexSets : {<<0, 1>>}]

\* BigInt.toI32 where the value fits
fitsI32(x) == (0 - 2^(I32Bits - 1)) <= x /\ x < 2^(I32Bits - 1)

\* BigInt.toI32 where it keeps the low bits
toI32(x) ==
  LET r == x % (2^I32Bits)
  IN IF r >= 2^(I32Bits - 1) THEN r - 2^I32Bits ELSE r

NotResolved(conditionId) ==
  <<"Failed to update market positions: condition has not resolved", conditionId>>

\* the redemption loop selling only a positive balance
RECURSIVE RedemptionLoop_clamped(_, _, _, _, _, _, _)
RedemptionLoop_clamped(st, userAddress, marketMakerAddress, redeemedSlots, payoutNumerators, payoutDenominator, i) ==
  IF i < Len(redeemedSlots)
  THEN LET redeemedSlot == redeemedSlots[i + 1]
           position == getMarketPosition(st.store, userAddress,
                                         marketMakerAddress, redeemedSlot)
           index == toI32(redeemedSlot)
           balance == IF position.netQuantity > 0 THEN position.netQuantity ELSE 0
       IN IF index < 0 \/ index >= Len(payoutNumerators) \/ payoutDenominator = 0
          THEN Trap(st)
          ELSE LET numerator == payoutNumerators[index + 1]
                   redemptionValue == div(balance * numerator, payoutDenominator)
                   updated == [position EXCEPT
                     !.quantitySold = position.quantitySold + balance,
                     !.valueSold = position.valueSold + redemptionValue]
               IN RedemptionLoop_clamped(updateNetPositionAndSave(st, updated),
                                 userAddress, marketMakerAddress, redeemedSlots,
                                 payoutNumerators, payoutDenominator, i + 1)
  ELSE st

\* the redemption loop with the quotient rounded down
RECURSIVE RedemptionLoop_floor(_, _, _, _, _, _, _)
RedemptionLoop_floor(st, userAddress, marketMakerAddress, redeemedSlots, payoutNumerators, payoutDenominator, i) ==
  IF i < Len(redeemedSlots)
  THEN LET redeemedSlot == redeemedSlots[i + 1]
           position == getMarketPosition(st.store, userAddress,
                                         marketMakerAddress, redeemedSlot)
           index == toI32(redeemedSlot)
       IN IF index < 0 \/ index >= Len(payoutNumerators) \/ payoutDenominator <= 0
          THEN Trap(st)
          ELSE LET numerator == payoutNumerators[index + 1]
                   redemptionValue ==
                     (position.netQuantity * numerator) \div payoutDenominator
                   updated == [position EXCEPT
                     !.quantitySold = position.quantitySold + position.netQuantity,
                     !.valueSold = position.valueSold + redemptionValue]
               IN RedemptionLoop_floor(updateNetPositionAndSave(st, updated),
                                 userAddress, marketMakerAddress, redeemedSlots,
                                 payoutNumerators, payoutDenominator, i + 1)
  ELSE st

RECURSIVE RedemptionLoop(_, _, _, _, _, _, _)
RedemptionLoop(st, userAddress, marketMakerAddress, redeemedSlots, payoutNumerators, payoutDenominator, i) ==
  IF i < Len(redeemedSlots)
  THEN LET redeemedSlot == redeemedSlots[i + 1]
           position == getMarketPosition(st.store, userAddress,
                                         marketMakerAddress, redeemedSlot)
           index == toI32(redeemedSlot)
       IN IF index < 0 \/ index >= Len(payoutNumerators) \/ payoutDenominator = 0
          THEN Trap(st)
          ELSE LET numerator == payoutNumerators[index + 1]
                   redemptionValue ==
                     div(position.netQuantity * numerator, payoutDenominator)
                   updated == [position EXCEPT
                     !.quantitySold = position.quantitySold + position.netQuantity,
                     !.valueSold = position.valueSold + redemptionValue]
               IN RedemptionLoop(updateNetPositionAndSave(st, updated),
                                 userAddress, marketMakerAddress, redeemedSlots,
                                 payoutNumerators, payoutDenominator, i + 1)
  ELSE st

\* the redemption returning early only when both payout fields are missing
updateMarketPositionsFromRedemption_bothMissing(store, marketMakerAddress, userAddress, redeemedSlots, loaded, trapOnNull, garbage) ==
  LET condition == IF loaded = None THEN garbage ELSE loaded[1]
      payoutNumerators == condition.payoutNumerators
      payoutDenominator == condition.payoutDenominator
  IN IF loaded = None /\ trapOnNull THEN Trap(Run(store))
     ELSE IF payoutNumerators = None /\ payoutDenominator = None
     THEN Log(Run(store), NotResolved(condition.id))
     ELSE RedemptionLoop(Run(store), userAddress, marketMakerAddress,
                         redeemedSlots,
                         IF payoutNumerators = None THEN <<>> ELSE payoutNumerators[1],
                         IF payoutDenominator = None THEN 1 ELSE payoutDenominator[1],
                         0)

\* loaded: the result of Condition.load
updateMarketPositionsFromRedemption(store, marketMakerAddress, userAddress, redeemedSlots, loaded, trapOnNull, garbage) ==
  LET condition == IF loaded = None THEN garbage ELSE loaded[1]
      payoutNumerators == condition.payoutNumerators
      payoutDenominator == condition.payoutDenominator
  IN IF loaded = None /\ trapOnNull THEN Trap(Run(store))
     ELSE IF payoutNumerators = None \/ payoutDenominator = None
     THEN Log(Run(store), NotResolved(condition.id))
     ELSE RedemptionLoop(Run(store), userAddress, marketMakerAddress,
                         redeemedSlots, payoutNumerators[1],
                         payoutDenominator[1], 0)

\* -------------------------------------------------------------- liquidity
\* the FPMMFundingAdded events of the stream: amountsAdded has one entry per
\* outcome of the emitting market maker
FundingAdded ==
  [from : Users, address : {"0xf2"},
   amountsAdded : {<<100, 80, 60>>, <<100, 100, 100>>}, sharesMinted : {60, 100}]
  \cup [from : Users, address : {"0xf1"},
        amountsAdded : {<<60, 200>>}, sharesMinted : {60, 100}]

\* the comparator (a, b) => a.minus(b).toI32()
comparator(a, b) == toI32(a - b)

\* Array.sort of a reference array: insertion sort; s.arr is the array and
\* s.overflow tells whether a compared difference did not fit an i32
RECURSIVE insert(_, _, _)
insert(s, a, j) ==
  IF j >= 0
  THEN LET b == s.arr[j + 1]
           s1 == [s EXCEPT !.overflow = s.overflow \/ ~fitsI32(a - b)]
       IN IF comparator(a, b) < 0
          THEN insert([s1 EXCEPT !.arr[j + 2] = b], a, j - 1)
          ELSE [s1 EXCEPT !.arr[j + 2] = a]
  ELSE [s EXCEPT !.arr[j + 2] = a]

RECURSIVE insertionSort(_, _)
insertionSort(s, i) ==
  IF i < Len(s.arr) THEN insertionSort(insert(s, s.arr[i + 1], i - 1), i + 1)
  ELSE s

sort(arr) == insertionSort([arr |-> arr, overflow |-> FALSE], 0)

RECURSIVE totalRefunded(_, _, _)
totalRefunded(addedFunds, amountsAdded, outcomeIndex) ==
  IF outcomeIndex < Len(amountsAdded)
  THEN (addedFunds - amountsAdded[outcomeIndex + 1])
       + totalRefunded(addedFunds, amountsAdded, outcomeIndex + 1)
  ELSE bigZero

\* the liquidity-added loop without the guard on the divisor
RECURSIVE LiquidityAddedLoop_unguarded(_, _, _, _, _, _, _, _)
LiquidityAddedLoop_unguarded(st, funder, fpmmAddress, amountsAdded, addedFunds, totalRefundedValue, totalRefundedOutcomeTokens, outcomeIndex) ==
  IF outcomeIndex < Len(amountsAdded)
  THEN IF totalRefundedOutcomeTokens = bigZero THEN Trap(st)
       ELSE
       LET position == getMarketPosition(st.store, funder, fpmmAddress, outcomeIndex)
           refundedAmount == addedFunds - amountsAdded[outcomeIndex + 1]
           refundValue ==
             div(totalRefundedValue * refundedAmount, totalRefundedOutcomeTokens)
           updated == [position EXCEPT
                         !.quantityBought = position.quantityBought + refundedAmount,
                         !.valueBought = position.valueBought + refundValue]
       IN LiquidityAddedLoop_unguarded(updateNetPositionAndSave(st, updated),
                             funder, fpmmAddress, amountsAdded, addedFunds,
                             totalRefundedValue, totalRefundedOutcomeTokens,
                             outcomeIndex + 1)
  ELSE st

RECURSIVE LiquidityAddedLoop(_, _, _, _, _, _, _, _)
LiquidityAddedLoop(st, funder, fpmmAddress, amountsAdded, addedFunds, totalRefundedValue, totalRefundedOutcomeTokens, outcomeIndex) ==
  IF outcomeIndex < Len(amountsAdded)
  THEN LET position == getMarketPosition(st.store, funder, fpmmAddress, outcomeIndex)
           refundedAmount == addedFunds - amountsAdded[outcomeIndex + 1]
           refundValue ==
             IF totalRefundedOutcomeTokens > bigZero
             THEN div(totalRefundedValue * refundedAmount, totalRefundedOutcomeTokens)
             ELSE bigZero
           updated == [position EXCEPT
                         !.quantityBought = position.quantityBought + refundedAmount,
                         !.valueBought = position.valueBought + refundValue]
       IN LiquidityAddedLoop(updateNetPositionAndSave(st, updated), funder,
                             fpmmAddress, amountsAdded, addedFunds,
                             totalRefundedValue, totalRefundedOutcomeTokens,
                             outcomeIndex + 1)
  ELSE st

\* trapOnOverflow: toI32 of a difference that does not fit an i32 either
\* aborts the handler or keeps the low bits
updateMarketPositionFromLiquidityAdded(store, fpmmAddress, funder, amountsAdded, sharesMinted, trapOnOverflow) ==
  LET sorted == sort(amountsAdded)
  IN IF amountsAdded = <<>> \/ (sorted.overflow /\ trapOnOverflow)
     THEN Trap(Run(store))
     ELSE LET addedFunds == sorted.arr[Len(sorted.arr)]
              totalRefundedValue == addedFunds - sharesMinted
              totalRefundedOutcomeTokens == totalRefunded(addedFunds, amountsAdded, 0)
          IN LiquidityAddedLoop(Run(store), funder, fpmmAddress, amountsAdded,
                                addedFunds, totalRefundedValue,
                                totalRefundedOutcomeTokens, 0)

\* the FPMMFundingRemoved events of the stream
FundingRemoved ==
  [from : Users, address : {"0xf1"}, amountsRemoved : {<<1, 2>>}, sharesBurnt : {5}]
  \cup [from : Users, address : {"0xf2"}, amountsRemoved : {<<1, 2, 3>>},
        sharesBurnt : {5}]

RECURSIVE LiquidityRemovedLoop(_, _, _, _, _, _)
LiquidityRemovedLoop(st, funder, fpmmAddress, amountsRemoved, pricePaidForTokens, outcomeIndex) ==
  IF outcomeIndex < Len(amountsRemoved)
  THEN LET position == getMarketPosition(st.store, funder, fpmmAddress, outcomeIndex)
           updated == [position EXCEPT
             !.quantityBought = position.quantityBought + amountsRemoved[outcomeIndex + 1],
             !.valueBought = position.valueBought + pricePaidForTokens]
       IN LiquidityRemovedLoop(updateNetPositionAndSave(st, updated), funder,
                               fpmmAddress, amountsRemoved, pricePaidForTokens,
                               outcomeIndex + 1)
  ELSE st

\* liquidity-removed booking all the burnt shares as the price of each outcome
updateMarketPositionFromLiquidityRemoved_undivided(store, fpmmAddress, funder, amountsRemoved, sharesBurnt) ==
  IF Len(amountsRemoved) = 0 THEN Trap(Run(store))
  ELSE LiquidityRemovedLoop(Run(store), funder, fpmmAddress, amountsRemoved,
                            sharesBurnt, 0)

updateMarketPositionFromLiquidityRemoved(store, fpmmAddress, funder, amountsRemoved, sharesBurnt) ==
  IF Len(amountsRemoved) = 0 THEN Trap(Run(store))
  ELSE LiquidityRemovedLoop(Run(store), funder, fpmmAddress, amountsRemoved,
                            div(sharesBurnt, Len(amountsRemoved)), 0)

\* ---------------------------------------------------------------- actions
\* a merge undoing the split that came right before it
Undoes(event, previous) ==
  /\ event.type = "merge" /\ previous.type = "split"
  /\ event.user = previous.user /\ event.market = previous.market
  /\ event.amount = previous.amount

\* one event of the stream: the handler runs on the store; pre, ev and diags
\* keep the store before the event, the event and what it logged, prior the
\* store before a split that the event undoes, and replay the store before
\* the first of two applications of the same event in a row
Apply(event, result) ==
  /\ positions' = result.store
  /\ prior' = IF Undoes(event, ev) THEN Some(pre) ELSE None
  /\ replay' = IF event = ev THEN Some(pre) ELSE None
  /\ pre' = positions
  /\ ev' = event
  /\ diags' = result.log
  /\ halted' = result.trapped
  /\ nEvents' = nEvents + 1

Enabled == ~halted /\ nEvents < MaxEvents

Trade ==
  /\ Enabled
  /\ \E hash \in Hashes :
     LET loaded == loadTransaction(hash) IN
     \E trapOnNull \in IF loaded = None THEN BOOLEAN ELSE {FALSE} :
     \E garbage \in IF loaded = None /\ ~trapOnNull THEN GarbageTransactions
                    ELSE {Tx("", "", 0, "", 0, 0)} :
        Apply([type |-> "trade", hash |-> hash],
              updateMarketPositionFromTrade(positions, loaded, trapOnNull, garbage))

Split ==
  /\ Enabled
  /\ \E userAddress \in Users, amount \in SplitAmounts :
     \E marketMakerAddress \in Markets \cup {UnknownMarket} :
     LET marketMaker == loadMarketMaker(marketMakerAddress) IN
     \E trapOnNull \in IF marketMaker = None THEN BOOLEAN ELSE {FALSE} :
     \E garbage \in IF marketMaker = None /\ ~trapOnNull THEN GarbageSlotCounts
                    ELSE {0} :
        Apply([type |-> "split", user |-> userAddress,
               market |-> marketMakerAddress, amount |-> amount],
              updateMarketPositionsFromSplit(positions, marketMakerAddress,
                 userAddress, amount, marketMaker, trapOnNull, garbage))

Merge ==
  /\ Enabled
  /\ \E userAddress \in Users, amount \in SplitAmounts :
     \E marketMakerAddress \in Markets \cup {UnknownMarket} :
     LET marketMaker == loadMarketMaker(marketMakerAddress) IN
     \E trapOnNull \in IF marketMaker = None THEN BOOLEAN ELSE {FALSE} :
     \E garbage \in IF marketMaker = None /\ ~trapOnNull THEN GarbageSlotCounts
                    ELSE {0} :
        Apply([type |-> "merge", user |-> userAddress,
               market |-> marketMakerAddress, amount |-> amount],
              updateMarketPositionsFromMerge(positions, marketMakerAddress,
                 userAddress, amount, marketMaker, trapOnNull, garbage))

Redemption ==
  /\ Enabled
  /\ \E event \in PayoutRedemptions :
     LET loaded == loadCondition(event.conditionId) IN
     \E trapOnNull \in IF loaded = None THEN BOOLEAN ELSE {FALSE} :
     \E garbage \in IF loaded = None /\ ~trapOnNull THEN GarbageConditions
                    ELSE {Cond("", None, None)} :
        Apply([type |-> "redemption", user |-> event.from,
               market |-> event.market, conditionId |-> event.conditionId,
               indexSets |-> event.indexSets],
              updateMarketPositionsFromRedemption(positions, event.market,
                 event.from, event.indexSets, loaded, trapOnNull, garbage))

LiquidityAdded ==
  /\ Enabled
  /\ \E event \in FundingAdded :
     \E trapOnOverflow \in IF sort(event.amountsAdded).overflow THEN BOOLEAN
                           ELSE {FALSE} :
        Apply([type |-> "liquidityAdded", user |-> event.from,
               market |-> event.address, amountsAdded |-> event.amountsAdded,
               sharesMinted |-> event.sharesMinted],
              updateMarketPositionFromLiquidityAdded(positions, event.address,
                 event.from, event.amountsAdded, event.sharesMinted,
                 trapOnOverflow))

LiquidityRemoved ==
  /\ Enabled
  /\ \E event \in FundingRemoved :
        Apply([type |-> "liquidityRemoved", user |-> event.from,
               market |-> event.address, amountsRemoved |-> event.amountsRemoved,
               sharesBurnt |-> event.sharesBurnt],
              updateMarketPositionFromLiquidityRemoved(positions, event.address,
                 event.from, event.amountsRemoved, event.sharesBurnt))

\* the handler of an event of the stream run on a store; trap tells whether
\* what is undefined in it (a null read, a toI32 that does not fit) aborts it
Handle(store, event, trap) ==
  CASE event.type = "trade" ->
         updateMarketPositionFromTrade(store, loadTransaction(event.hash), trap,
            CHOOSE g \in GarbageTransactions : TRUE)
    [] event.type = "split" ->
         updateMarketPositionsFromSplit(store, event.market, event.user,
            event.amount, loadMarketMaker(event.market), trap,
            CHOOSE g \in GarbageSlotCounts : TRUE)
    [] event.type = "merge" ->
         updateMarketPositionsFromMerge(store, event.market, event.user,
            event.amount, loadMarketMaker(event.market), trap,
            CHOOSE g \in GarbageSlotCounts : TRUE)
    [] event.type = "redemption" ->
         updateMarketPositionsFromRedemption(store, event.market, event.user,
            event.indexSets, loadCondition(event.conditionId), trap,
            CHOOSE g \in GarbageConditions : TRUE)
    [] event.type = "liquidityAdded" ->
         updateMarketPositionFromLiquidityAdded(store, event.market, event.user,
            event.amountsAdded, event.sharesMinted, trap)
    [] event.type = "liquidityRemoved" ->
         updateMarketPositionFromLiquidityRemoved(store, event.market,
            event.user, event.amountsRemoved, event.sharesBurnt)

\* the store after the stream of the two events first, second: an aborted
\* handler ends the stream
Stream(store, first, second, trap) ==
  LET result == Handle(store, first, trap)
  IN IF result.trapped THEN result.store
     ELSE Handle(result.store, second, trap).store

\* the events of the stream other than redemptions
OtherEvents ==
  {[type |-> "trade", hash |-> h] : h \in Hashes}
  \cup [type : {"split", "merge"}, user : Users,
        market : Markets \cup {UnknownMarket}, amount : SplitAmounts]
  \cup {[type |-> "liquidityAdded", user |-> e.from, market |-> e.address,
         amountsAdded |-> e.amountsAdded, sharesMinted |-> e.sharesMinted] :
          e \in FundingAdded}
  \cup {[type |-> "liquidityRemoved", user |-> e.from, market |-> e.address,
         amountsRemoved |-> e.amountsRemoved, sharesBurnt |-> e.sharesBurnt] :
          e \in FundingRemoved}

\* the redemption events of the stream
RedemptionEvents ==
  {[type |-> "redemption", user |-> e.from, market |-> e.market,
    conditionId |-> e.conditionId, indexSets |-> e.indexSets] :
     e \in PayoutRedemptions}

Init ==
  /\ positions = <<>>
  /\ pre = <<>>
  /\ ev = [type |-> "none"]
  /\ diags = <<>>
  /\ halted = FALSE
  /\ nEvents = 0
  /\ prior = None
  /\ replay = None

Next ==
  \/ Trade
  \/ Split
  \/ Merge
  \/ Redemption
  \/ LiquidityAdded
  \/ LiquidityRemoved

Spec == Init /\ [][Next]_vars

\* ------------------------------------------------------------------ claims
Reconciled(p) ==
  /\ p.netQuantity = p.quantityBought - p.quantitySold
  /\ p.netValue = p.valueBought - p.valueSold

ZeroFields ==
  [quantityBought |-> 0, quantitySold |-> 0, netQuantity |-> 0,
   valueBought |-> 0, valueSold |-> 0, netValue |-> 0]

\* the six fields of the position stored under id, zero when none is stored
Fields(store, id) ==
  IF id \in DOMAIN store
  THEN [quantityBought |-> store[id].quantityBought,
        quantitySold |-> store[id].quantitySold,
        netQuantity |-> store[id].netQuantity,
        valueBought |-> store[id].valueBought,
        valueSold |-> store[id].valueSold,
        netValue |-> store[id].netValue]
  ELSE ZeroFields

Key(user, market, outcomeIndex) == user \o market \o NatToString(outcomeIndex)

\* the quotient of a by b > 0, truncated toward zero
Quot(a, b) == IF a >= 0 THEN a \div b ELSE 0 - ((0 - a) \div b)

Range(seq) == {seq[i] : i \in 1..Len(seq)}

RECURSIVE MaxOf(_)
MaxOf(seq) ==
  IF Len(seq) = 1 THEN seq[1]
  ELSE LET m == MaxOf(Tail(seq)) IN IF seq[1] > m THEN seq[1] ELSE m

RECURSIVE SumOf(_)
SumOf(seq) == IF seq = <<>> THEN 0 ELSE seq[1] + SumOf(Tail(seq))

Ids == (DOMAIN positions) \cup (DOMAIN pre)

\* the store after the event is the store before it, but for the ids in touched
OnlyChanged(touched) ==
  /\ DOMAIN pre \subseteq DOMAIN positions
  /\ \A id \in (DOMAIN positions) \ touched :
        id \in DOMAIN pre /\ positions[id] = pre[id]

\* C1: after any sequence of events applied to the empty store, every stored
\* position has netQuantity = quantityBought - quantitySold and
\* netValue = valueBought - valueSold.
C1_NetFieldsReconciled ==
  \A id \in DOMAIN positions : Reconciled(positions[id])

C1_Witness ==
  \E id \in DOMAIN positions :
     /\ positions[id].quantityBought > 0
     /\ positions[id].quantitySold > 0
     /\ positions[id].netQuantity < 0

\* C2: a split followed at once by a merge of the same user, market and amount
\* leaves netQuantity and netValue of every position of that user in that
\* market as they were before the split.
C2_SplitThenMergeRoundTrip ==
  (prior # None /\ ev.market \in Markets) =>
     /\ ~halted
     /\ \A id \in (DOMAIN positions) \cup (DOMAIN prior[1]) :
           (id \in DOMAIN positions
              /\ positions[id].user = ev.user /\ positions[id].market = ev.market)
           => /\ Fields(positions, id).netQuantity = Fields(prior[1], id).netQuantity
              /\ Fields(positions, id).netValue = Fields(prior[1], id).netValue
     /\ \A k \in 0..(FixedProductMarketMakers[ev.market] - 1) :
           Key(ev.user, ev.market, k) \in DOMAIN positions

C2_Witness ==
  /\ prior # None /\ ev.market \in Markets
  /\ \E id \in DOMAIN prior[1] :
        /\ prior[1][id].user = ev.user /\ prior[1][id].market = ev.market
        /\ prior[1][id].netQuantity # 0 /\ prior[1][id].netValue # 0

\* the redemption found its condition and both payout fields
RedeemedResolved ==
  /\ ev.type = "redemption"
  /\ ev.conditionId \in DOMAIN Conditions
  /\ Conditions[ev.conditionId].payoutNumerators # None
  /\ Conditions[ev.conditionId].payoutDenominator # None

\* C3: when a redemption against a resolved condition has run to its end,
\* every position (user, market, i) with i among the redeemed indices has
\* netQuantity 0, whatever it was before.
C3_RedemptionZeroesNetQuantity ==
  (RedeemedResolved /\ ~halted) =>
     \A i \in Range(ev.indexSets) :
        /\ Key(ev.user, ev.market, i) \in DOMAIN positions
        /\ positions[Key(ev.user, ev.market, i)].netQuantity = 0

C3_Witness ==
  /\ RedeemedResolved /\ ~halted
  /\ \E i \in Range(ev.indexSets) :
        Fields(pre, Key(ev.user, ev.market, i)).netQuantity < 0
  /\ \E i \in Range(ev.indexSets) :
        Fields(pre, Key(ev.user, ev.market, i)).netQuantity > 0

\* C4: a trade whose transaction hash has no stored Transaction leaves the
\* store of positions as it was and emits exactly one diagnostic.
C4_MissingTransactionTouchesNothing ==
  (ev.type = "trade" /\ loadTransaction(ev.hash) = None) =>
     (positions = pre /\ Len(diags) = 1)

\* C5: a redemption whose loaded condition lacks payoutNumerators or
\* payoutDenominator creates and modifies no position and emits exactly one
\* diagnostic.
C5_UnresolvedRedemptionTouchesNothing ==
  (/\ ev.type = "redemption"
   /\ ev.conditionId \in DOMAIN Conditions
   /\ \/ Conditions[ev.conditionId].payoutNumerators = None
      \/ Conditions[ev.conditionId].payoutDenominator = None)
  => (positions = pre /\ Len(diags) = 1 /\ ~halted)

C5_Witness ==
  /\ ev.type = "redemption"
  /\ ev.conditionId = "0xc4"
  /\ \E i \in Range(ev.indexSets) :
        Fields(pre, Key(ev.user, ev.market, i)).netQuantity # 0

\* the position (user, market, k) of the last event, before and after it
Before(k) == Fields(pre, Key(ev.user, ev.market, k))
After(k) == Fields(positions, Key(ev.user, ev.market, k))

\* C6: liquidity-added changes the funder's position of each outcome i by
\* quantityBought += max(amountsAdded) - amountsAdded[i] and valueBought +=
\* (max(amountsAdded) - sharesMinted) * (max(amountsAdded) - amountsAdded[i]) / T,
\* truncated, T the sum of max(amountsAdded) - amountsAdded[j] over the outcomes.
C6_LiquidityAddedRefund ==
  (ev.type = "liquidityAdded") =>
     LET a == ev.amountsAdded
         m == MaxOf(a)
         T == Len(a) * m - SumOf(a)
     IN \A i \in 0..(Len(a) - 1) :
           /\ After(i).quantityBought = Before(i).quantityBought + (m - a[i + 1])
           /\ After(i).valueBought = Before(i).valueBought
                + (IF T > 0 THEN Quot((m - ev.sharesMinted) * (m - a[i + 1]), T) ELSE 0)

\* C7: liquidity-added with all amountsAdded equal changes no field of any
\* position, for every sharesMinted, and does not fail on a division.
C7_EqualAmountsChangeNothing ==
  (ev.type = "liquidityAdded" /\ \A x, y \in Range(ev.amountsAdded) : x = y) =>
     /\ ~halted
     /\ \A id \in Ids : Fields(positions, id) = Fields(pre, id)

C7_Witness ==
  /\ ev.type = "liquidityAdded"
  /\ \A x, y \in Range(ev.amountsAdded) : x = y
  /\ ev.sharesMinted # MaxOf(ev.amountsAdded)
  /\ \E i \in 0..(Len(ev.amountsAdded) - 1) :
        Before(i).quantityBought > 0 /\ Before(i).valueBought > 0

\* C8: a trade whose Transaction exists changes only the position keyed
\* (transaction.user, transaction.market, transaction.outcomeIndex): a Buy adds
\* outcomeTokensAmount and tradeAmount to quantityBought and valueBought, a Sell
\* to quantitySold and valueSold, and the other gross fields stay.
C8_TradeTouchesOnePosition ==
  (ev.type = "trade" /\ ev.hash \in DOMAIN Transactions) =>
     LET t == Transactions[ev.hash]
         k == Key(t.user, t.market, t.outcomeIndex)
         b == Fields(pre, k)
         a == Fields(positions, k)
     IN /\ ~halted
        /\ OnlyChanged({k})
        /\ k \in DOMAIN positions
        /\ positions[k].user = t.user /\ positions[k].market = t.market
        /\ positions[k].outcomeIndex = t.outcomeIndex
        /\ IF t.type = "Buy"
           THEN /\ a.quantityBought = b.quantityBought + t.outcomeTokensAmount
                /\ a.valueBought = b.valueBought + t.tradeAmount
                /\ a.quantitySold = b.quantitySold /\ a.valueSold = b.valueSold
           ELSE /\ a.quantitySold = b.quantitySold + t.outcomeTokensAmount
                /\ a.valueSold = b.valueSold + t.tradeAmount
                /\ a.quantityBought = b.quantityBought
                /\ a.valueBought = b.valueBought

C8_Witness ==
  /\ ev.type = "trade" /\ ev.hash \in DOMAIN Transactions
  /\ Transactions[ev.hash].type = "Sell"
  /\ Cardinality(DOMAIN pre) >= 2
  /\ \E id \in DOMAIN pre :
        /\ pre[id].user = Transactions[ev.hash].user
        /\ pre[id].market = Transactions[ev.hash].market
        /\ pre[id].outcomeIndex = Transactions[ev.hash].outcomeIndex
        /\ pre[id].quantityBought > 0

\* C9: a redemption against a resolved condition updates each redeemed position
\* (user, market, i) by quantitySold += netQuantity and valueSold +=
\* netQuantity * payoutNumerators[i] / payoutDenominator, truncated toward zero,
\* with the netQuantity from before the update, and changes quantityBought and
\* valueBought of no position.
C9_RedemptionAmounts ==
  (RedeemedResolved /\ ~halted) =>
     LET numerators == Conditions[ev.conditionId].payoutNumerators[1]
         denominator == Conditions[ev.conditionId].payoutDenominator[1]
     IN /\ OnlyChanged({Key(ev.user, ev.market, i) : i \in Range(ev.indexSets)})
        /\ \A i \in Range(ev.indexSets) :
              /\ After(i).quantitySold = Before(i).quantitySold + Before(i).netQuantity
              /\ After(i).valueSold = Before(i).valueSold
                   + Quot(Before(i).netQuantity * numerators[i + 1], denominator)
              /\ After(i).quantityBought = Before(i).quantityBought
              /\ After(i).valueBought = Before(i).valueBought

C9_Witness ==
  /\ RedeemedResolved /\ ~halted
  /\ \E i \in Range(ev.indexSets) :
        /\ Before(i).netQuantity < 0
        /\ (Before(i).netQuantity
              * Conditions[ev.conditionId].payoutNumerators[1][i + 1])
           % Conditions[ev.conditionId].payoutDenominator[1] # 0

\* C10: a split of amount A in a market of N outcomes updates exactly the
\* positions (user, market, 0..N-1), each by quantityBought += A and
\* valueBought += A div N, in total A - (A mod N) of value, and leaves
\* quantitySold, valueSold and every other position; a merge does the same on
\* quantitySold and valueSold.
C10_SplitMergeAmounts ==
  (ev.type \in {"split", "merge"} /\ ev.market \in Markets) =>
     LET N == FixedProductMarketMakers[ev.market]
         A == ev.amount
     IN /\ ~halted
        /\ OnlyChanged({Key(ev.user, ev.market, k) : k \in 0..(N - 1)})
        /\ \A k \in 0..(N - 1) :
              IF ev.type = "split"
              THEN /\ After(k).quantityBought = Before(k).quantityBought + A
                   /\ After(k).valueBought = Before(k).valueBought + (A \div N)
                   /\ After(k).quantitySold = Before(k).quantitySold
                   /\ After(k).valueSold = Before(k).valueSold
              ELSE /\ After(k).quantitySold = Before(k).quantitySold + A
                   /\ After(k).valueSold = Before(k).valueSold + (A \div N)
                   /\ After(k).quantityBought = Before(k).quantityBought
                   /\ After(k).valueBought = Before(k).valueBought
        /\ SumOf([k \in 1..N |->
                    IF ev.type = "split"
                    THEN After(k - 1).valueBought - Before(k - 1).valueBought
                    ELSE After(k - 1).valueSold - Before(k - 1).valueSold])
           = A - (A % N)

C10_Witness ==
  /\ ev.type = "split" /\ ev.market \in Markets
  /\ ev.amount % FixedProductMarketMakers[ev.market] # 0
  /\ \E id \in DOMAIN pre : pre[id].user # ev.user \/ pre[id].market # ev.market
  /\ \E id \in DOMAIN pre :
        /\ pre[id].user = ev.user /\ pre[id].market = ev.market
        /\ pre[id].outcomeIndex < FixedProductMarketMakers[ev.market]
        /\ pre[id].quantitySold > 0

\* C11: liquidity-removed updates the funder's position of each outcome i by
\* quantityBought += amountsRemoved[i] and valueBought += sharesBurnt div N
\* and leaves quantitySold and valueSold of every position.
C11_LiquidityRemovedAmounts ==
  (ev.type = "liquidityRemoved") =>
     LET a == ev.amountsRemoved
         N == Len(a)
     IN /\ ~halted
        /\ OnlyChanged({Key(ev.user, ev.market, k) : k \in 0..(N - 1)})
        /\ \A k \in 0..(N - 1) :
              /\ After(k).quantityBought = Before(k).quantityBought + a[k + 1]
              /\ After(k).valueBought = Before(k).valueBought + (ev.sharesBurnt \div N)
              /\ After(k).quantitySold = Before(k).quantitySold
              /\ After(k).valueSold = Before(k).valueSold

C11_Witness ==
  /\ ev.type = "liquidityRemoved"
  /\ ev.sharesBurnt % Len(ev.amountsRemoved) # 0
  /\ \E k \in 0..(Len(ev.amountsRemoved) - 1) :
        Before(k).quantitySold > 0 /\ Before(k).valueBought > 0

\* the diagnostic of a negative netQuantity of the position stored under id
NegativeDiagnostic(id) ==
  <<"Invalid position: negative netQuantity", positions[id].user,
    NatToString(positions[id].outcomeIndex), positions[id].market>>

\* C12: a position reconciled with quantityBought - quantitySold negative gets
\* a diagnostic and is stored with the negative netQuantity, and the other
\* positions of the event are still processed: nothing aborts, nothing clamps.
C12_NegativeNetIsLoggedAndSaved ==
  /\ \A id \in DOMAIN positions :
        (/\ id \notin DOMAIN pre \/ positions[id] # pre[id]
         /\ positions[id].quantityBought - positions[id].quantitySold < 0)
        => /\ positions[id].netQuantity
                = positions[id].quantityBought - positions[id].quantitySold
           /\ \E d \in 1..Len(diags) : diags[d] = NegativeDiagnostic(id)
  /\ (ev.type = "merge" /\ ev.market \in Markets) =>
        /\ ~halted
        /\ \A k \in 0..(FixedProductMarketMakers[ev.market] - 1) :
              /\ Key(ev.user, ev.market, k) \in DOMAIN positions
              /\ After(k).quantitySold = Before(k).quantitySold + ev.amount
        /\ Len(diags) = Cardinality({k \in 0..(FixedProductMarketMakers[ev.market] - 1) :
                                       After(k).netQuantity < 0})

C12_Witness ==
  /\ ev.type = "merge" /\ ev.market \in Markets
  /\ Len(diags) = FixedProductMarketMakers[ev.market]
  /\ \A k \in 0..(FixedProductMarketMakers[ev.market] - 1) :
        After(k).netQuantity < 0
  /\ \E k \in 0..(FixedProductMarketMakers[ev.market] - 1) :
        Before(k).netQuantity < 0

\* the last event looked up an entity that is not stored
LookupFailed ==
  \/ ev.type \in {"split", "merge"} /\ ev.market \notin Markets
  \/ ev.type = "redemption" /\ ev.conditionId \notin DOMAIN Conditions

\* C13: a split or merge whose market maker is not found, and a redemption
\* whose Condition is not found, emits a diagnostic, mutates no position and
\* returns normally, so that the next event is processed.
C13_LookupFailureSkipsEvent ==
  LookupFailed => (positions = pre /\ Len(diags) = 1 /\ ~halted)

\* the last event is no liquidity-added whose sort compares a difference
\* that does not fit an i32
SortFits == ev.type = "liquidityAdded" => ~sort(ev.amountsAdded).overflow

\* C14: with non-negative event amounts, quantityBought, quantitySold,
\* valueBought and valueSold of every stored position are >= 0 and none of
\* them decreases from one event to the next (stated for the events whose
\* sort fits, so that a violation does not rest on the comparator).
C14_GrossFieldsMonotone ==
  SortFits =>
  \A id \in DOMAIN positions :
     LET a == Fields(positions, id)
         b == Fields(pre, id)
     IN /\ a.quantityBought >= 0 /\ a.quantitySold >= 0
        /\ a.valueBought >= 0 /\ a.valueSold >= 0
        /\ a.quantityBought >= b.quantityBought
        /\ a.quantitySold >= b.quantitySold
        /\ a.valueBought >= b.valueBought
        /\ a.valueSold >= b.valueSold

\* C16: addedFunds, the last element of the sorted copy of amountsAdded, is the
\* maximum of amountsAdded for every non-empty input, and the refunds are
\* taken against amountsAdded in the order of the event.
C16_AddedFundsIsMaximum ==
  (ev.type = "liquidityAdded") =>
     LET a == ev.amountsAdded
         addedFunds == sort(a).arr[Len(a)]
     IN /\ ~halted
        /\ addedFunds = MaxOf(a)
        /\ \A i \in 0..(Len(a) - 1) :
              After(i).quantityBought - Before(i).quantityBought
                 = addedFunds - a[i + 1]

\* C17: no event leaves its update stored for some of the positions it
\* affects and not for the others: a handler that does not run to its end
\* has stored nothing.
C17_NoPartialUpdate ==
  halted => positions = pre

\* C19: liquidity-added with 0 <= sharesMinted <= max(amountsAdded) and some
\* unequal amount credits in total at most max(amountsAdded) - sharesMinted of
\* value and more than that less N.
C19_RefundValueDistributed ==
  (/\ ev.type = "liquidityAdded"
   /\ 0 <= ev.sharesMinted /\ ev.sharesMinted <= MaxOf(ev.amountsAdded)
   /\ \E x, y \in Range(ev.amountsAdded) : x # y)
  => LET N == Len(ev.amountsAdded)
         credited == SumOf([k \in 1..N |->
                       After(k - 1).valueBought - Before(k - 1).valueBought])
         totalRefundedValue == MaxOf(ev.amountsAdded) - ev.sharesMinted
     IN credited <= totalRefundedValue /\ credited > totalRefundedValue - N

\* the last event found the entity it looked up
Found ==
  /\ ~LookupFailed
  /\ ev.type = "trade" => ev.hash \in DOMAIN Transactions

\* the second of two applications of one event changed every gross field by
\* what the first changed it by
SameChangeTwice ==
  \A id \in Ids \cup (DOMAIN replay[1]) :
     LET a == Fields(positions, id)
         b == Fields(pre, id)
         c == Fields(replay[1], id)
     IN /\ a.quantityBought - b.quantityBought = b.quantityBought - c.quantityBought
        /\ a.quantitySold - b.quantitySold = b.quantitySold - c.quantitySold
        /\ a.valueBought - b.valueBought = b.valueBought - c.valueBought
        /\ a.valueSold - b.valueSold = b.valueSold - c.valueSold

\* C15 as stated: for every event type, the same event applied twice in a row
\* changes the gross fields of each affected position by twice what one
\* application does.
C15_ReplayDoublesEveryEvent ==
  (replay # None /\ Found /\ ~halted) => SameChangeTwice

\* C15 as amended: that holds for trade, split, merge, liquidity-added and
\* liquidity-removed; a redemption applied twice in a row changes the fields
\* as one application does, the second one changes nothing.
C15_ReplayDoublesButRedemption ==
  (replay # None /\ Found /\ ~halted) =>
     IF ev.type = "redemption" THEN positions = pre ELSE SameChangeTwice

C15_Witness ==
  /\ replay # None /\ RedeemedResolved /\ ~halted
  /\ \E i \in Range(ev.indexSets) :
        Fields(replay[1], Key(ev.user, ev.market, i)).netQuantity # 0

====
